---- MODULE Spec2Model ----
(***************************************************************************)
(* Deployment lifecycle manager of the hosting control plane (src/main.py). *)
(*                                                                         *)
(* Persisted state is the committed content of the Project and NgrokTunnel *)
(* tables: an attribute assigned on a session object reaches the tables    *)
(* only through db.session.commit(); what a request assigned and did not   *)
(* commit is discarded when the request's session is removed.  Background  *)
(* threads re-read the row by id in a session of their own.                *)
(*                                                                         *)
(* External collaborators (docker engine, host processes, ngrok agent,     *)
(* project directories) are part of the state; their failures are inputs.  *)
(***************************************************************************)
EXTENDS Integers, FiniteSets, Sequences, TLC

\* ---------------------------------------------------------------- bounds
MaxLaunch == 2         \* backend workloads ever launched, counting the launches in flight
MaxTunnelReq == 1      \* explicit tunnel start requests admitted past their checks
MaxOutput == 2         \* lines a child process, or a container, prints

\* ------------------------------------------------------- program constants
NULL == 0              \* None in a nullable column (ids and pids are positive)
PollAttempts == 30     \* for _ in range(30): the connection attempts of a readiness wait
PollLimit == 10        \* for _ in range(10): the polls of a native termination

\* the probes a child can outlive after SIGTERM; past PollLimit it ignores the signal
Survives == 0 .. PollLimit + 1

Users == {"alice", "bob"}
Owners == {"alice"}                \* the users who create deployments
Threads == {"t1", "t2"}            \* request-handling threads of the threaded server
ProjectIds == {1}                  \* the deployment whose lifecycle is followed

Templates ==
  {"pyrogram-bot", "static-site", "web-service", "worker", "vps", "github-docker", "github-custom"}

\* the templates the code treats as exposing a port
WebTemplates == {"static-site", "web-service", "github-docker", "github-custom"}

GithubTemplates == {"github-docker", "github-custom"}

\* the deployments the model creates: one form per way the lifecycle code treats a
\* template (web-service is handled as static-site; github-docker is cloned like
\* github-custom), with a tunnel token where the form saves one
Forms ==
  {<<"static-site", FALSE>>, <<"static-site", TRUE>>, <<"pyrogram-bot", FALSE>>,
   <<"worker", FALSE>>, <<"vps", FALSE>>, <<"github-custom", FALSE>>}

PlanNames == {"free", "premium", "enterprise"}

\* Config.PLANS: only the limits the lifecycle code reads
PLANS ==
  [ free       |-> [max_projects |-> 1,  max_ngrok_tunnels |-> 0],
    premium    |-> [max_projects |-> 10, max_ngrok_tunnels |-> 1],
    enterprise |-> [max_projects |-> -1, max_ngrok_tunnels |-> 5] ]

VARIABLES
  docker_available,   \* process-global: a container engine answered at import time
  ngrok_available,    \* process-global: Config.NGROK_AUTH_TOKEN was set
  plan,               \* User.plan, per user
  Project,            \* committed Project rows: id -> row (the domain is the existing ids)
  NgrokTunnel,        \* committed NgrokTunnel rows
  last_project_id,    \* id allocation of the Project table
  last_tunnel_id,     \* id allocation of the NgrokTunnel table
  project_dir,        \* ids whose project directory exists on disk
  containers,         \* docker engine: the containers that exist
  processes,          \* host processes started by Popen
  log_file,           \* logs/app.log of the project directories where the file exists
  ngrok_agent,        \* public tunnels open in the ngrok agent (by tunnel id)
  monitors,           \* background monitor threads
  req,                \* per request thread: the request it is handling
  response,           \* the response just sent, if the last step sent one
  launches,           \* workloads launched so far (the last container id or pid handed out)
  tunnel_reqs         \* explicit tunnel starts admitted so far

vars ==
  << docker_available, ngrok_available, plan, Project, NgrokTunnel, last_project_id,
     last_tunnel_id, project_dir, containers, processes, log_file, ngrok_agent, monitors,
     req, response, launches, tunnel_reqs >>

\* everything but the request bookkeeping
world ==
  << docker_available, ngrok_available, plan, Project, NgrokTunnel, last_project_id,
     last_tunnel_id, project_dir, containers, processes, log_file, ngrok_agent, monitors >>

\* ---------------------------------------------------------------- helpers
Idle ==
  [pc |-> "idle", kind |-> "none", user |-> "none", project |-> 0, result |-> "none",
   was_running |-> FALSE, container_id |-> NULL, pos |-> 0, sent |-> << >>]

\* the start and restart requests that are past their checks and have not launched yet
Launching == {t \in Threads : req[t].pc \in {"deploying", "launch"}}

\* a handler has produced its response: jsonify({'success': ..., 'message': ...});
\* every except clause answers with str(e), written "exception" here
Done(r, result) == [r EXCEPT !.pc = "done", !.result = result]

Successes ==
  {"Project is starting", "Project stopped successfully", "Project is restarting",
   "Project deleted successfully", "public_url", "Ngrok tunnel stopped successfully",
   "dashboard", "stats"}

NoResponse == [success |-> FALSE, message |-> "none"]

\* A step of the handler running on thread t leaves it as request record r.  When r is
\* done the response is sent and the request's session is removed: whatever it
\* assigned without committing is gone.
Handler(t, r) ==
  /\ response = NoResponse
  /\ req' = [req EXCEPT ![t] = IF r.pc = "done" THEN Idle ELSE r]
  /\ response' = IF r.pc = "done"
                   THEN [success |-> r.result \in Successes, message |-> r.result]
                   ELSE NoResponse

\* a step of a background thread or of the environment
Background == response = NoResponse /\ UNCHANGED <<req, response>>

\* the client takes the response off the wire
Receive ==
  /\ response # NoResponse
  /\ response' = NoResponse
  /\ UNCHANGED <<world, req, launches, tunnel_reqs>>

NewRequest(kind, u, p) ==
  [Idle EXCEPT !.pc = "begin", !.kind = kind, !.user = u, !.project = p]

\* db.session.get(Project, id) followed by the ownership test every handler makes
Authorized_any_user(u, p) == p \in DOMAIN Project

Authorized(u, p) == p \in DOMAIN Project /\ Project[p].user_id = u

get_plan_limits(u) == PLANS[plan[u]]

\* NgrokTunnel.query.filter_by(user_id=u, active=True).count()
active_tunnels(u) == Cardinality({t \in NgrokTunnel : t.user_id = u /\ t.active})

\* project.ngrok_tunnel of a deployment without a tunnel row (None)
NoTunnel == [id |-> NULL, user_id |-> "none", project_id |-> NULL, active |-> FALSE]

\* the rows the Project.ngrok_tunnel backref can load
tunnels_of(p) == {t \in NgrokTunnel : t.project_id = p}

\* a workload launched for p that is alive: a running container or a live process
AliveContainers(p) == {c \in containers : c.name = p /\ c.state = "running"}
AliveProcesses(p) == {x \in processes : x.project = p /\ x.state = "alive"}
WorkloadAlive(p) == AliveContainers(p) # {} \/ AliveProcesses(p) # {}

\* db.session.commit() of pending attribute assignments on the row of p; an UPDATE
\* of a row that was deleted meanwhile changes nothing
Commit(p, assigned) ==
  IF p \in DOMAIN Project
    THEN [Project EXCEPT ![p] = [f \in DOMAIN Project[p] |->
            IF f \in DOMAIN assigned THEN assigned[f] ELSE Project[p][f]]]
    ELSE Project

\* the lines of logs/app.log: what start_native_deployment writes when it creates the
\* file, the n-th line a child printed, and "Process exited with code <n>"
StartLine == [kind |-> "start", pid |-> NULL, n |-> 0]
OutLine(pid, n) == [kind |-> "out", pid |-> pid, n |-> n]
ExitLine(code) == [kind |-> "exit", pid |-> NULL, n |-> code]

\* a child of subprocess.Popen: out is what it printed and the reader has not read yet,
\* printed is how many lines it printed
Child(pid, p) ==
  [pid |-> pid, project |-> p, state |-> "alive", code |-> 0, out |-> << >>, printed |-> 0]

Init ==
  /\ docker_available \in BOOLEAN
  /\ ngrok_available \in BOOLEAN
  /\ \E pl \in PlanNames : plan = [u \in Users |-> IF u \in Owners THEN pl ELSE "free"]
  /\ Project = << >>
  /\ NgrokTunnel = {}
  /\ last_project_id = 0
  /\ last_tunnel_id = 0
  /\ project_dir = {}
  /\ containers = {}
  /\ processes = {}
  /\ log_file = << >>
  /\ ngrok_agent = {}
  /\ monitors = {}
  /\ req = [t \in Threads |-> Idle]
  /\ response = NoResponse
  /\ launches = 0
  /\ tunnel_reqs = 0

\* ------------------------------------------------------------ new_deployment
\* The row is committed with the defaults (status stopped, container_id NULL), the
\* directory and its logs subdirectory are created, and the tunnel token is saved
\* for the port-exposing templates only.  `complete` says whether the form carries the
\* fields of its template (bot_token, api_id, api_hash; start_command):
\* request.form.get gives None for a missing one and nothing tests it.  What a missing
\* field does later (a bot that exits at once, a start command that cannot be split)
\* is among the exit codes and launch faults of the backends.
new_deployment(t, u, template, token, complete) ==
  /\ req[t].pc = "idle"
  /\ u \in Owners
  /\ last_project_id + 1 \in ProjectIds
  /\ LET limits == get_plan_limits(u)
         current_projects == Cardinality({p \in DOMAIN Project : Project[p].user_id = u})
         id == last_project_id + 1
         row == [template |-> template, status |-> "stopped", user_id |-> u,
                 container_id |-> NULL,
                 ngrok_token |-> (token /\ template \in WebTemplates)]
     IN IF limits.max_projects > 0 /\ current_projects >= limits.max_projects
          THEN /\ Handler(t, Done(NewRequest("new", u, 0), "plan allows only max_projects projects"))
               /\ UNCHANGED <<Project, last_project_id, project_dir>>
          ELSE /\ Project' = (id :> row) @@ Project
               /\ last_project_id' = id
               /\ project_dir' = project_dir \cup {id}
               /\ Handler(t, Done(NewRequest("new", u, id), "dashboard"))
  /\ UNCHANGED <<docker_available, ngrok_available, plan, log_file, NgrokTunnel, last_tunnel_id,
                 containers, processes, ngrok_agent, monitors, launches, tunnel_reqs>>

\* ------------------------------------------------------- execution backends
LaunchFaults == {"none", "clone", "build", "create", "start", "pip", "spawn"}

\* git clone <repo> <project_dir> refuses a destination that exists and is not empty;
\* the directory holds logs/ from setup_project (and start_native_deployment) on
git_clone_ok(p, dirs, fault) == p \notin dirs /\ fault # "clone"

\* containers.create(name="kustify-<id>") is refused while a container of that name exists
name_free(p) == \A c \in containers : c.name # p

\* polls counts the connection attempts made, open says the last one connected, port is
\* the port it tried
DockerMonitor(p, cid) ==
  [kind |-> "docker", project |-> p, template |-> Project[p].template,
   user_id |-> Project[p].user_id, handle |-> cid,
   pc |-> "wait", polls |-> 0, open |-> FALSE, port |-> "none"]

NativeMonitor(p, pid) ==
  [kind |-> "native", project |-> p, template |-> Project[p].template,
   user_id |-> Project[p].user_id, handle |-> pid,
   pc |-> "wait"]

\* start_docker_deployment, the step that raises: a refused clone is re-raised out of
\* the first try block before images.build is called; then build, create, start in turn
docker_failed_past_clone(p, cloned, dirs, fault) ==
  IF fault = "build" \/ p \notin dirs THEN "build"
  ELSE IF fault = "create" \/ ~name_free(p) THEN "create"
  ELSE IF fault = "start" THEN "start"
  ELSE "none"

docker_failed(p, cloned, dirs, fault) ==
  IF Project[p].template \in GithubTemplates /\ ~cloned THEN "clone"
  ELSE IF fault = "build" \/ p \notin dirs THEN "build"
  ELSE IF fault = "create" \/ ~name_free(p) THEN "create"
  ELSE IF fault = "start" THEN "start"
  ELSE "none"

\* the calls start_docker_deployment has made when it returns or raises at `failed`
docker_attempted(template, failed) ==
  (IF template \in GithubTemplates THEN {"clone"} ELSE {})
    \cup (IF failed = "clone" THEN {}
          ELSE IF failed = "build" THEN {"build"}
          ELSE IF failed = "create" THEN {"build", "create"}
          ELSE {"build", "create", "start"})

\* the ports= argument of containers.create: the application port for the four
\* port-exposing templates, the port of ttyd for vps
port_mapping(template) ==
  (IF template \in WebTemplates THEN {"project.port"} ELSE {})
    \cup (IF template = "vps" THEN {"7681"} ELSE {})

\* start_docker_deployment: clone (source-repository templates), build, create, start,
\* then the container id is assigned to project.container_id and the monitor thread is
\* started.  The result names what the engine, the disk and the threads look like after.
start_docker_deployment(p, cid, fault) ==
  LET template == Project[p].template
      cloned == template \in GithubTemplates /\ git_clone_ok(p, project_dir, fault)
      dirs == IF cloned THEN project_dir \cup {p} ELSE project_dir
      failed == docker_failed(p, cloned, dirs, fault)
  IN [ ok |-> failed = "none",
       used |-> failed \in {"none", "start"},
       attempted |-> docker_attempted(template, failed),
       ports |-> port_mapping(template),
       container_id |-> IF failed = "none" THEN cid ELSE NULL,
       project_dir |-> dirs,
       containers |->
         IF failed = "none" THEN containers \cup {[id |-> cid, name |-> p, state |-> "running", printed |-> 0]}
         ELSE IF failed = "start"
           THEN containers \cup {[id |-> cid, name |-> p, state |-> "created", printed |-> 0]}
         ELSE containers,
       processes |-> processes,
       log_file |-> log_file,
       monitors |-> IF failed = "none" THEN monitors \cup {DockerMonitor(p, cid)} ELSE monitors ]

\* start_native_deployment: log file, clone, pip install, build command, the command of
\* the template, Popen; then str(pid) is assigned to project.container_id and the
\* reader thread is started.
start_native_deployment(p, pid, fault) ==
  LET template == Project[p].template
      dirs == project_dir \cup {p}          \* os.makedirs(logs_dir, exist_ok=True)
      failed ==
        IF template \in GithubTemplates /\ ~git_clone_ok(p, dirs, fault) THEN "clone"
        ELSE IF fault = "pip" /\ template \notin (GithubTemplates \cup {"vps"}) THEN "pip"
        ELSE IF fault = "build" /\ template = "github-custom" THEN "build"
        ELSE IF template \in {"vps", "github-docker"} THEN "template"
        ELSE IF fault = "spawn" THEN "spawn"
        ELSE "none"
  IN [ ok |-> failed = "none",
       used |-> failed = "none",
       container_id |-> IF failed = "none" THEN pid ELSE NULL,
       project_dir |-> dirs,
       containers |-> containers,
       log_file |-> (p :> <<StartLine>>) @@ log_file,      \* open(log_file, 'w')
       processes |->
         IF failed = "none"
           THEN processes \cup {Child(pid, p)}
           ELSE processes,
       monitors |-> IF failed = "none" THEN monitors \cup {NativeMonitor(p, pid)} ELSE monitors ]

\* the dispatch of start_project and restart_project
launch(p, id, fault) ==
  IF docker_available THEN start_docker_deployment(p, id, fault)
  ELSE start_native_deployment(p, id, fault)

\* stop_docker_deployment: containers.get, stop, remove; project.container_id = None
stop_docker_deployment(container_id, fault) ==
  LET found == {c \in containers : c.id = container_id}
  IN IF found = {} \/ fault
       THEN [ok |-> FALSE, containers |-> containers, processes |-> processes,
             container_id |-> container_id]
       ELSE [ok |-> TRUE, containers |-> containers \ found, processes |-> processes,
             container_id |-> NULL]

\* for _ in range(10) of stop_native_deployment, from iteration i on: the existence
\* probes os.kill(pid, 0) the loop makes for a child that is still there at `survives`
\* probes after the SIGTERM; the probe that raises ProcessLookupError ends the loop
RECURSIVE wait_for_exit(_, _)
wait_for_exit(i, survives) ==
  IF i > PollLimit THEN 0
  ELSE IF i > survives THEN 1
  ELSE 1 + wait_for_exit(i + 1, survives)

\* the test under "If still running, force kill": os.kill(pid, 0) after the loop
force_kill_never(survives) == FALSE

force_kill(survives) == survives > PollLimit

\* the os.kill calls of stop_native_deployment in order
native_signals(survives) ==
  <<"SIGTERM">> \o [i \in 1 .. wait_for_exit(1, survives) |-> "poll"] \o <<"check">>
    \o (IF force_kill(survives) THEN <<"SIGKILL">> ELSE << >>)

\* stop_native_deployment: nothing to do without a handle; else SIGTERM (which raises
\* for a pid that is gone), up to ten polls a second apart, SIGKILL when the child is
\* still there; project.container_id = None.  A child that outlives the polls ignores
\* SIGTERM and is ended by SIGKILL only.
stop_native_deployment(container_id, survives) ==
  LET alive == {x \in processes : x.pid = container_id /\ x.state = "alive"}
  IN IF container_id = NULL
       THEN [ok |-> TRUE, containers |-> containers, processes |-> processes,
             container_id |-> container_id, signals |-> << >>]
     ELSE IF alive = {}
       THEN [ok |-> FALSE, containers |-> containers, processes |-> processes,
             container_id |-> container_id, signals |-> <<"SIGTERM">>]
     ELSE [ok |-> TRUE, containers |-> containers,
           processes |-> (processes \ alive) \cup
                           {IF survives <= PollLimit
                              THEN [x EXCEPT !.state = "exited", !.code = -15]
                            ELSE IF force_kill(survives)
                              THEN [x EXCEPT !.state = "exited", !.code = -9]
                            ELSE x : x \in alive},
           container_id |-> NULL, signals |-> native_signals(survives)]

\* what a successful terminate leaves pending on the session's project: the handle
\* is assigned None only where there was one
Cleared(container_id) == IF container_id = NULL THEN << >> ELSE [container_id |-> NULL]

\* the dispatch of stop_project, restart_project and delete_project; `fault` is the
\* backend not doing as asked: the engine refuses the stop, the child ignores SIGTERM
terminate(container_id, fault) ==
  IF docker_available /\ container_id # NULL THEN stop_docker_deployment(container_id, fault)
  ELSE stop_native_deployment(container_id, IF fault THEN PollLimit + 1 ELSE 0)

\* ------------------------------------------------------------- start_project
\* the only status test of start_project: if project.status == 'running'
already_running_any(p) == FALSE

already_running(p) == Project[p].status = "running"

\* db.session.get, the ownership test and the status test
start_project(t, u, p) ==
  /\ req[t].pc = "idle"
  /\ LET r == NewRequest("start", u, p)
     IN IF ~Authorized(u, p)
          THEN Handler(t, Done(r, "Unauthorized"))
        ELSE IF already_running(p)
          THEN Handler(t, Done(r, "Project is already running"))
        ELSE /\ launches + Cardinality(Launching) < MaxLaunch
             /\ Handler(t, [r EXCEPT !.pc = "deploying"])
  /\ UNCHANGED <<world, launches, tunnel_reqs>>

\* project.status = 'deploying'; db.session.commit()
set_deploying(t) ==
  /\ req[t].pc = "deploying"
  /\ req[t].kind = "start"
  /\ Project' = Commit(req[t].project, [status |-> "deploying"])
  /\ Handler(t, IF req[t].project \in DOMAIN Project THEN [req[t] EXCEPT !.pc = "launch"]
               ELSE Done(req[t], "exception"))
  /\ UNCHANGED <<docker_available, ngrok_available, plan, log_file, NgrokTunnel, last_project_id,
                 last_tunnel_id, project_dir, containers, processes, ngrok_agent, monitors,
                 launches, tunnel_reqs>>

\* the except clause of start_project and restart_project:
\* project.status = 'error'; db.session.commit()
launch_failed_logged(p) == Project

launch_failed(p) == Commit(p, [status |-> "error"])

\* the backend launch of start_project and restart_project and, when it raises, their
\* except clause: project.status = 'error'; db.session.commit().  On success the handle
\* is assigned to the session's project and nothing is committed.
deploy(t, fault) ==
  /\ req[t].pc = "launch"
  /\ LET p == req[t].project
     IN IF p \notin DOMAIN Project
          THEN /\ Handler(t, Done(req[t], "exception"))
               /\ UNCHANGED <<Project, project_dir, containers, processes, log_file, monitors,
                              launches>>
          ELSE LET out == launch(p, launches + 1, fault)
               IN /\ project_dir' = out.project_dir
                  /\ containers' = out.containers
                  /\ processes' = out.processes
                  /\ log_file' = out.log_file
                  /\ monitors' = out.monitors
                  /\ launches' = IF out.used THEN launches + 1 ELSE launches
                  /\ IF out.ok
                       THEN /\ UNCHANGED Project
                            /\ Handler(t, Done([req[t] EXCEPT !.container_id = out.container_id],
                                            IF req[t].kind = "start" THEN "Project is starting"
                                            ELSE "Project is restarting"))
                       ELSE /\ Project' = launch_failed(p)
                            /\ Handler(t, Done(req[t], "exception"))
  /\ UNCHANGED <<docker_available, ngrok_available, plan, NgrokTunnel, last_project_id,
                 last_tunnel_id, ngrok_agent, tunnel_reqs>>

\* -------------------------------------------------------------- stop_project
\* the status test of stop_project: if project.status != 'running'
stop_any_status(p) == FALSE

stop_not_running(p) == Project[p].status # "running"

stop_project(t, u, p) ==
  /\ req[t].pc = "idle"
  /\ LET r == NewRequest("stop", u, p)
     IN Handler(t, IF ~Authorized(u, p) THEN Done(r, "Unauthorized")
          ELSE IF stop_not_running(p) THEN Done(r, "Project is not running")
          ELSE [r EXCEPT !.pc = "terminate", !.was_running = TRUE,
                         !.container_id = Project[p].container_id])
  /\ UNCHANGED <<world, launches, tunnel_reqs>>

\* the backend is terminated, then project.status = 'stopped' is committed together
\* with the cleared handle; when terminating raises nothing is written
stop_terminate(t, fault) ==
  /\ req[t].pc = "terminate"
  /\ req[t].kind = "stop"
  /\ LET p == req[t].project
         out == terminate(req[t].container_id, fault)
     IN /\ containers' = out.containers
        /\ processes' = out.processes
        /\ IF out.ok /\ p \in DOMAIN Project
             THEN /\ Project' = Commit(p, Cleared(req[t].container_id) @@ [status |-> "stopped"])
                  /\ Handler(t, Done(req[t], "Project stopped successfully"))
             ELSE /\ UNCHANGED Project
                  /\ Handler(t, Done(req[t], "exception"))
  /\ UNCHANGED <<docker_available, ngrok_available, plan, log_file, NgrokTunnel, last_project_id,
                 last_tunnel_id, project_dir, ngrok_agent, monitors, launches, tunnel_reqs>>

\* ----------------------------------------------------------- restart_project
restart_project(t, u, p) ==
  /\ req[t].pc = "idle"
  /\ LET r == NewRequest("restart", u, p)
     IN IF ~Authorized(u, p)
          THEN Handler(t, Done(r, "Unauthorized"))
          ELSE /\ launches + Cardinality(Launching) < MaxLaunch
               /\ Handler(t, [r EXCEPT !.pc = "deploying",
                              !.was_running = (Project[p].status = "running"),
                              !.container_id = Project[p].container_id])
  /\ UNCHANGED <<world, launches, tunnel_reqs>>

\* a running deployment is terminated first; then project.status = 'deploying' is
\* committed; when terminating raises, the except clause commits 'error'
restart_stop(t, fault) ==
  /\ req[t].pc = "deploying"
  /\ req[t].kind = "restart"
  /\ LET p == req[t].project
         out == IF req[t].was_running THEN terminate(req[t].container_id, fault)
                ELSE [ok |-> TRUE, containers |-> containers, processes |-> processes,
                      container_id |-> req[t].container_id]
         cleared == IF req[t].was_running THEN Cleared(req[t].container_id) ELSE << >>
     IN /\ containers' = out.containers
        /\ processes' = out.processes
        /\ IF p \notin DOMAIN Project
             THEN UNCHANGED Project /\ Handler(t, Done(req[t], "exception"))
           ELSE IF out.ok
             THEN /\ Project' = Commit(p, cleared @@ [status |-> "deploying"])
                  /\ Handler(t, [req[t] EXCEPT !.pc = "launch", !.was_running = FALSE])
             ELSE /\ Project' = Commit(p, [status |-> "error"])
                  /\ Handler(t, Done(req[t], "exception"))
  /\ UNCHANGED <<docker_available, ngrok_available, plan, log_file, NgrokTunnel, last_project_id,
                 last_tunnel_id, project_dir, ngrok_agent, monitors, launches, tunnel_reqs>>

\* ------------------------------------------------------------ delete_project
delete_project(t, u, p) ==
  /\ req[t].pc = "idle"
  /\ LET r == NewRequest("delete", u, p)
     IN Handler(t, IF ~Authorized(u, p) THEN Done(r, "Unauthorized")
          ELSE [r EXCEPT !.pc = "delete", !.was_running = (Project[p].status = "running"),
                         !.container_id = Project[p].container_id])
  /\ UNCHANGED <<world, launches, tunnel_reqs>>

\* stop_ngrok_tunnel: ngrok.disconnect, whose failure is logged and swallowed
stop_ngrok_tunnel(tunnel, fault) ==
  IF fault THEN ngrok_agent ELSE ngrok_agent \ {tunnel.id}

\* project.ngrok_tunnel is a scalar relationship: of several rows it loads one
ngrok_tunnel(p) == IF tunnels_of(p) = {} THEN {NoTunnel} ELSE tunnels_of(p)

\* what makes the try block of delete_project raise: the terminate, the rmtree; a
\* failing ngrok.disconnect is caught inside stop_ngrok_tunnel
delete_raises_on_disconnect(out, fault) == ~out.ok \/ fault \in {"rmtree", "disconnect"}

delete_raises(out, fault) == ~out.ok \/ fault = "rmtree"

\* terminate if the status was running, rmtree, tear down and delete the tunnel row the
\* relationship loads, delete the row, commit
delete_run(t, tunnel, fault) ==
  /\ req[t].pc = "delete"
  /\ tunnel \in ngrok_tunnel(req[t].project)
  /\ LET p == req[t].project
         out == IF req[t].was_running THEN terminate(req[t].container_id, fault = "terminate")
                ELSE [ok |-> TRUE, containers |-> containers, processes |-> processes,
                      container_id |-> req[t].container_id]
     IN /\ containers' = out.containers
        /\ processes' = out.processes
        /\ IF delete_raises(out, fault)
             THEN /\ UNCHANGED <<Project, NgrokTunnel, project_dir, log_file, ngrok_agent>>
                  /\ Handler(t, Done(req[t], "exception"))
             ELSE /\ project_dir' = project_dir \ {p}
                  /\ log_file' = [q \in DOMAIN log_file \ {p} |-> log_file[q]]
                  /\ ngrok_agent' = IF tunnel = NoTunnel THEN ngrok_agent
                                    ELSE stop_ngrok_tunnel(tunnel, fault = "disconnect")
                  /\ NgrokTunnel' = NgrokTunnel \ {tunnel}
                  /\ Project' = [q \in DOMAIN Project \ {p} |-> Project[q]]
                  /\ Handler(t, Done(req[t], "Project deleted successfully"))
  /\ UNCHANGED <<docker_available, ngrok_available, plan, last_project_id, last_tunnel_id,
                 monitors, launches, tunnel_reqs>>

\* ------------------------------------------------------------- project_stats
\* the status test of project_stats: if project.status != 'running'
stats_any_status(p) == FALSE

stats_not_running(p) == Project[p].status # "running"

\* Nothing is assigned or committed.  With a container handle the engine is asked for
\* the container's stats (and raises for a container that is gone); without a handle
\* the deployment is taken for a native one.
project_stats(t, u, p) ==
  /\ req[t].pc = "idle"
  /\ LET r == NewRequest("stats", u, p)
     IN Handler(t, Done(r,
          IF ~Authorized(u, p) THEN "Unauthorized"
          ELSE IF stats_not_running(p) THEN "Project is not running"
          ELSE IF docker_available /\ Project[p].container_id # NULL
            THEN IF \E c \in containers : c.id = Project[p].container_id
                   THEN "stats" ELSE "exception"
          ELSE IF Project[p].container_id = NULL THEN "Native deployment stats not available"
          ELSE "Container not found"))
  /\ UNCHANGED <<world, launches, tunnel_reqs>>

\* -------------------------------------------------------- start_ngrok_tunnel
\* the status test of start_ngrok_tunnel: if project.status != 'running'
tunnel_status_unchecked(p) == FALSE

tunnel_not_running(p) == Project[p].status # "running"

\* The checks in the order of the code.  `ngrok` is bound inside the handler only by
\* the import under `if ngrok_token:`, so without a saved token ngrok.connect raises
\* and the except clause answers 500.
start_ngrok_tunnel(t, u, p) ==
  /\ req[t].pc = "idle"
  /\ LET r == NewRequest("ngrok_start", u, p)
     IN IF ~Authorized(u, p)
          THEN Handler(t, Done(r, "Unauthorized")) /\ UNCHANGED tunnel_reqs
        ELSE IF tunnel_not_running(p)
          THEN Handler(t, Done(r, "Project is not running")) /\ UNCHANGED tunnel_reqs
        ELSE IF active_tunnels(u) >= get_plan_limits(u).max_ngrok_tunnels
          THEN Handler(t, Done(r, "plan allows only max_ngrok_tunnels Ngrok tunnels")) /\ UNCHANGED tunnel_reqs
        ELSE IF ~ngrok_available
          THEN Handler(t, Done(r, "Ngrok is not available")) /\ UNCHANGED tunnel_reqs
        ELSE IF Project[p].template = "pyrogram-bot"
          THEN Handler(t, Done(r, "Ngrok not supported for this template")) /\ UNCHANGED tunnel_reqs
        ELSE IF ~Project[p].ngrok_token
          THEN Handler(t, Done(r, "exception")) /\ UNCHANGED tunnel_reqs
        ELSE /\ tunnel_reqs < MaxTunnelReq
             /\ tunnel_reqs' = tunnel_reqs + 1
             /\ Handler(t, [r EXCEPT !.pc = "connect"])
  /\ UNCHANGED <<world, launches>>

\* ngrok.connect, then the NgrokTunnel row is added and committed, then
\* project.ngrok_tunnel_id is committed, which raises when the row is gone.
\* (Project.ngrok_tunnel_id is written and never read: project.ngrok_tunnel is
\* loaded through NgrokTunnel.project_id.  The column is left out of the rows.)
new_tunnel(user_id, project_id) ==
  [id |-> last_tunnel_id + 1, user_id |-> user_id, project_id |-> project_id, active |-> TRUE]

ngrok_connect(t, fault) ==
  /\ req[t].pc = "connect"
  /\ LET p == req[t].project
         tunnel == new_tunnel(req[t].user, p)
     IN IF fault
          THEN /\ UNCHANGED <<Project, NgrokTunnel, last_tunnel_id, ngrok_agent>>
               /\ Handler(t, Done(req[t], "exception"))
          ELSE /\ ngrok_agent' = ngrok_agent \cup {tunnel.id}
               /\ NgrokTunnel' = NgrokTunnel \cup {tunnel}
               /\ last_tunnel_id' = tunnel.id
               /\ UNCHANGED Project
               /\ Handler(t, Done(req[t], IF p \in DOMAIN Project THEN "public_url" ELSE "exception"))
  /\ UNCHANGED <<docker_available, ngrok_available, plan, log_file, last_project_id, project_dir,
                 containers, processes, monitors, launches, tunnel_reqs>>

\* --------------------------------------------- stop_ngrok_tunnel_for_project
stop_ngrok_tunnel_for_project(t, u, p, tunnel, fault) ==
  /\ req[t].pc = "idle"
  /\ tunnel \in ngrok_tunnel(p)
  /\ LET r == NewRequest("ngrok_stop", u, p)
     IN IF ~Authorized(u, p)
          THEN /\ Handler(t, Done(r, "Unauthorized"))
               /\ UNCHANGED <<Project, NgrokTunnel, ngrok_agent>>
        ELSE IF tunnel = NoTunnel
          THEN /\ Handler(t, Done(r, "No active Ngrok tunnel for this project"))
               /\ UNCHANGED <<Project, NgrokTunnel, ngrok_agent>>
        ELSE /\ ngrok_agent' = stop_ngrok_tunnel(tunnel, fault)
             /\ NgrokTunnel' = NgrokTunnel \ {tunnel}
             /\ UNCHANGED Project
             /\ Handler(t, Done(r, "Ngrok tunnel stopped successfully"))
  /\ UNCHANGED <<docker_available, ngrok_available, plan, log_file, last_project_id, last_tunnel_id,
                 project_dir, containers, processes, monitors, launches, tunnel_reqs>>

\* ---------------------------------------------------------- background threads
\* the templates whose readiness wait polls a port; the others sleep once
PolledTemplates == WebTemplates \cup {"vps"}

\* the port a readiness wait connects to: project.port, or 7681 of ttyd for vps
polled_port_app(template) == IF template \in PolledTemplates THEN "project.port" ELSE "none"

polled_port(template) ==
  IF template \in WebTemplates THEN "project.port"
  ELSE IF template = "vps" THEN "7681"
  ELSE "none"

\* monitor_container_health, one turn of the polling loop: connect_ex on the port (an
\* exception of the socket is swallowed and counts as not connected), then break or
\* sleep one second
monitor_poll(m, connected) ==
  /\ m \in monitors
  /\ m.kind = "docker"
  /\ m.pc = "wait"
  /\ m.template \in PolledTemplates
  /\ ~m.open
  /\ m.polls < PollAttempts
  /\ monitors' = (monitors \ {m}) \cup
                   {[m EXCEPT !.polls = @ + 1, !.open = connected,
                              !.port = polled_port(m.template)]}
  /\ UNCHANGED <<docker_available, ngrok_available, plan, Project, NgrokTunnel, last_project_id,
                 last_tunnel_id, project_dir, containers, processes, log_file, ngrok_agent,
                 launches, tunnel_reqs>>
  /\ Background

\* how the wait of a monitor ends
WaitOutcomes == {"reachable", "exhausted", "slept", "raised"}

\* the ways the wait can end from where the monitor is: the sleep of a bot or worker
\* (and of any other template: no branch, no wait), the break of a poll that connected,
\* the thirtieth failed poll; a loop with turns left ends either way
loop_exits(m) ==
  IF m.template \notin PolledTemplates THEN {"slept"}
  ELSE IF m.open THEN {"reachable"}
  ELSE IF m.polls = PollAttempts THEN {"exhausted"}
  ELSE {"reachable", "exhausted"}

\* the status the monitor commits: 'running' after the wait however the loop ended,
\* 'error' in the except clause
wait_status_timeout(outcome) ==
  IF outcome \in {"raised", "exhausted"} THEN "error" ELSE "running"

wait_status(outcome) == IF outcome = "raised" THEN "error" ELSE "running"

\* the test before start_ngrok_for_project: a token in the config and a template of
\* the port-exposing four
autostart_tunnel_any(p) == TRUE

autostart_tunnel(p) == Project[p].ngrok_token /\ Project[p].template \in WebTemplates

\* monitor_container_health: the wait (the rest of the port polls, or a fixed sleep)
\* writes nothing; when it ends the row is re-read by id and, if it exists, 'running' is
\* committed.  With a saved token on a port-exposing template the thread goes on to the
\* tunnel.  When the try block raises before its commit (the session's get or commit),
\* the except clause re-reads the row and commits 'error'.
monitor_container_health(m, outcome) ==
  /\ m \in monitors
  /\ m.kind = "docker"
  /\ m.pc = "wait"
  /\ outcome \in loop_exits(m) \cup {"raised"}
  /\ LET p == m.project
         autostart == /\ p \in DOMAIN Project
                      /\ autostart_tunnel(p)
                      /\ outcome # "raised"
     IN /\ Project' = Commit(p, [status |-> wait_status(outcome)])
        /\ monitors' = IF autostart THEN (monitors \ {m}) \cup {[m EXCEPT !.pc = "ngrok"]}
                       ELSE monitors \ {m}
  /\ UNCHANGED <<docker_available, ngrok_available, plan, log_file, NgrokTunnel, last_project_id,
                 last_tunnel_id, project_dir, containers, processes, ngrok_agent, launches, tunnel_reqs>>
  /\ Background

\* start_ngrok_for_project, after its sleep: ngrok.connect, the row, the commit; a
\* failure is logged by the monitor and changes nothing
start_ngrok_for_project(m, fault) ==
  /\ m \in monitors
  /\ m.pc = "ngrok"
  /\ monitors' = monitors \ {m}
  /\ LET tunnel == new_tunnel(m.user_id, m.project)
     IN IF fault
          THEN UNCHANGED <<Project, NgrokTunnel, last_tunnel_id, ngrok_agent>>
          ELSE /\ ngrok_agent' = ngrok_agent \cup {tunnel.id}
               /\ NgrokTunnel' = NgrokTunnel \cup {tunnel}
               /\ last_tunnel_id' = tunnel.id
               /\ UNCHANGED Project
  /\ UNCHANGED <<docker_available, ngrok_available, plan, log_file, last_project_id, project_dir,
                 containers, processes, launches, tunnel_reqs>>
  /\ Background

\* the child of a native launch exits by itself, with code 0 or 1
process_exit(x, code) ==
  /\ x \in processes
  /\ x.state = "alive"
  /\ processes' = (processes \ {x}) \cup {[x EXCEPT !.state = "exited", !.code = code]}
  /\ UNCHANGED <<docker_available, ngrok_available, plan, log_file, Project, NgrokTunnel,
                 last_project_id, last_tunnel_id, project_dir, containers, ngrok_agent,
                 monitors, launches, tunnel_reqs>>
  /\ Background

\* the status monitor_native_process writes for a return code
exit_status_running(code) == "running"

exit_status(code) == IF code = 0 THEN "running" ELSE "error"

\* with open(log_file, 'a'): the file is created when missing; without the logs
\* directory the open raises
append(p, line) ==
  IF p \in DOMAIN log_file THEN [log_file EXCEPT ![p] = Append(@, line)]
  ELSE (p :> <<line>>) @@ log_file

\* monitor_native_process, the loop: a line of the child's output is read from the pipe
\* and appended to the log file
reader_line(m) ==
  /\ m \in monitors
  /\ m.kind = "native"
  /\ m.project \in project_dir
  /\ \E x \in processes :
       /\ x.pid = m.handle
       /\ x.out # << >>
       /\ log_file' = append(m.project, Head(x.out))
       /\ processes' = (processes \ {x}) \cup {[x EXCEPT !.out = Tail(@)]}
  /\ UNCHANGED <<docker_available, ngrok_available, plan, Project, NgrokTunnel,
                 last_project_id, last_tunnel_id, project_dir, containers, ngrok_agent,
                 monitors, launches, tunnel_reqs>>
  /\ Background

\* monitor_native_process, after the loop: the reader gets end of file when the child
\* has exited and its output is read; it appends the exit-code line, re-reads the row
\* by id and commits 'running' for return code 0, 'error' otherwise.  When the project
\* directory is gone the append raises, and again in the except clause: the thread ends.
monitor_native_process(m) ==
  /\ m \in monitors
  /\ m.kind = "native"
  /\ \E x \in processes :
       /\ x.pid = m.handle
       /\ x.state = "exited"
       /\ x.out = << >>
       /\ IF m.project \in project_dir
            THEN /\ log_file' = append(m.project, ExitLine(x.code))
                 /\ Project' = Commit(m.project, [status |-> exit_status(x.code)])
            ELSE UNCHANGED <<log_file, Project>>
       /\ processes' = processes \ {x}          \* process.wait() reaps the child
  /\ monitors' = monitors \ {m}
  /\ UNCHANGED <<docker_available, ngrok_available, plan, NgrokTunnel, last_project_id,
                 last_tunnel_id, project_dir, containers, ngrok_agent, launches, tunnel_reqs>>
  /\ Background

\* ------------------------------------------------------------- specification
Next ==
  \/ \E t \in Threads, u \in Users, form \in Forms :
        \E complete \in BOOLEAN : new_deployment(t, u, form[1], form[2], complete)
  \/ \E t \in Threads, u \in Users, p \in ProjectIds : start_project(t, u, p)
  \/ \E t \in Threads : set_deploying(t)
  \/ \E t \in Threads, fault \in LaunchFaults : deploy(t, fault)
  \/ \E t \in Threads, u \in Users, p \in ProjectIds : stop_project(t, u, p)
  \/ \E t \in Threads, fault \in BOOLEAN : stop_terminate(t, fault)
  \/ \E t \in Threads, u \in Users, p \in ProjectIds : restart_project(t, u, p)
  \/ \E t \in Threads, fault \in BOOLEAN : restart_stop(t, fault)
  \/ \E t \in Threads, u \in Users, p \in ProjectIds : delete_project(t, u, p)
  \/ \E t \in Threads, tunnel \in NgrokTunnel \cup {NoTunnel},
         fault \in {"none", "terminate", "rmtree", "disconnect"} : delete_run(t, tunnel, fault)
  \/ \E t \in Threads, u \in Users, p \in ProjectIds : start_ngrok_tunnel(t, u, p)
  \/ \E t \in Threads, fault \in BOOLEAN : ngrok_connect(t, fault)
  \/ \E t \in Threads, u \in Users, p \in ProjectIds,
         tunnel \in NgrokTunnel \cup {NoTunnel}, fault \in BOOLEAN :
        stop_ngrok_tunnel_for_project(t, u, p, tunnel, fault)
  \/ \E m \in monitors, outcome \in WaitOutcomes : monitor_container_health(m, outcome)
  \/ \E m \in monitors, fault \in BOOLEAN : start_ngrok_for_project(m, fault)
  \/ \E x \in processes, code \in {0, 1} : process_exit(x, code)
  \/ \E m \in monitors : monitor_native_process(m)
  \/ \E t \in Threads, u \in Users, p \in ProjectIds : project_stats(t, u, p)
  \/ Receive

Spec == Init /\ [][Next]_vars

\* The threads of the server are scheduled fairly: a request past its checks goes on,
\* a monitor thread that can run does, a response is delivered.  Nothing makes a
\* client send a request or a launched workload exit.
RequestStep(t) ==
  \/ set_deploying(t)
  \/ \E fault \in LaunchFaults : deploy(t, fault)
  \/ \E fault \in BOOLEAN : stop_terminate(t, fault)
  \/ \E fault \in BOOLEAN : restart_stop(t, fault)
  \/ \E tunnel \in NgrokTunnel \cup {NoTunnel},
         fault \in {"none", "terminate", "rmtree", "disconnect"} : delete_run(t, tunnel, fault)
  \/ \E fault \in BOOLEAN : ngrok_connect(t, fault)

MonitorStep ==
  \/ \E m \in monitors, outcome \in WaitOutcomes : monitor_container_health(m, outcome)
  \/ \E m \in monitors, fault \in BOOLEAN : start_ngrok_for_project(m, fault)
  \/ \E m \in monitors : monitor_native_process(m)

FairSpec ==
  /\ Spec
  /\ \A t \in Threads : SF_vars(RequestStep(t))
  /\ SF_vars(MonitorStep)
  /\ WF_vars(Receive)

\* ------------------------------------------------------------ the log bridge
\* a live child prints a line on its stdout
child_writes(x) ==
  /\ x \in processes
  /\ x.state = "alive"
  /\ x.printed < MaxOutput
  /\ processes' = (processes \ {x}) \cup
                    {[x EXCEPT !.out = Append(@, OutLine(x.pid, x.printed + 1)),
                               !.printed = @ + 1]}
  /\ UNCHANGED <<docker_available, ngrok_available, plan, Project, NgrokTunnel,
                 last_project_id, last_tunnel_id, project_dir, containers, log_file,
                 ngrok_agent, monitors, launches, tunnel_reqs>>
  /\ Background

\* a running container prints a chunk of output, which the engine keeps in its log
container_writes(c) ==
  /\ c \in containers
  /\ c.state = "running"
  /\ c.printed < MaxOutput
  /\ containers' = (containers \ {c}) \cup {[c EXCEPT !.printed = @ + 1]}
  /\ UNCHANGED <<docker_available, ngrok_available, plan, Project, NgrokTunnel,
                 last_project_id, last_tunnel_id, project_dir, processes, log_file,
                 ngrok_agent, monitors, launches, tunnel_reqs>>
  /\ Background

\* the messages a bridge puts on its socket besides the lines of the log file: an
\* in-band error, a container's output up to its chunk n, a chunk of a shell's output
ErrorMessage == [kind |-> "error", pid |-> NULL, n |-> 0]
LogMessage(cid, n) == [kind |-> "log", pid |-> cid, n |-> n]
OutputMessage(cid) == [kind |-> "output", pid |-> cid, n |-> 0]

\* the status test of logs_ws: if project.status not in ['running', 'deploying']
logs_rejected_stopped(p) == Project[p].status = "stopped"

logs_rejected(p) == Project[p].status \notin {"running", "deploying"}

\* logs_ws, opening: the ownership test closes the socket, a status other than running
\* or deploying is answered with an error and the socket is closed; with a container
\* handle container.logs() is sent as one message when it is not empty, else the log
\* file is opened and the position put at its end
logs_ws(t, u, p) ==
  /\ req[t].pc = "idle"
  /\ LET r == NewRequest("logs", u, p)
     IN Handler(t,
          IF ~Authorized(u, p) THEN Done(r, "closed")
          ELSE IF logs_rejected(p)
            THEN Done(r, "Project is not running")
          ELSE IF docker_available /\ Project[p].container_id # NULL
            THEN IF \E c \in containers : c.id = Project[p].container_id
                   THEN LET c == CHOOSE c \in containers : c.id = Project[p].container_id
                        IN [r EXCEPT !.pc = "attach", !.container_id = c.id,
                                     !.sent = IF c.printed = 0 THEN << >>
                                              ELSE <<LogMessage(c.id, c.printed)>>]
                   ELSE Done(r, "exception")
          ELSE IF p \notin DOMAIN log_file THEN Done(r, "Log file not found")
          ELSE [r EXCEPT !.pc = "follow", !.pos = Len(log_file[p])])       \* f.seek(0, 2)
  /\ UNCHANGED <<world, launches, tunnel_reqs>>

\* logs_ws, the loop: a line past the position is read and sent to the viewer (sent
\* holds the message last put on the socket)
logs_follow(t) ==
  /\ req[t].pc = "follow"
  /\ req[t].project \in DOMAIN log_file
  /\ req[t].pos < Len(log_file[req[t].project])
  /\ Handler(t, [req[t] EXCEPT !.pos = @ + 1,
                               !.sent = <<log_file[req[t].project][req[t].pos + 1]>>])
  /\ UNCHANGED <<world, launches, tunnel_reqs>>

\* logs_ws, container.logs(stream=True, follow=True, tail=0): the stream starts at the
\* end of what the container has printed when the call is made
logs_attach(t) ==
  /\ req[t].pc = "attach"
  /\ LET found == {c \in containers : c.id = req[t].container_id}
     IN Handler(t,
          IF found = {} THEN Done(req[t], "exception")
          ELSE [req[t] EXCEPT !.pc = "stream", !.pos = (CHOOSE c \in found : TRUE).printed])
  /\ UNCHANGED <<world, launches, tunnel_reqs>>

\* logs_ws, the loop over the stream: the next chunk past the stream's position is sent;
\* the stream ends when the container is gone; an error of the engine is sent as an
\* error message; in both cases the finally clause closes the socket
logs_stream(t, fault) ==
  /\ req[t].pc = "stream"
  /\ LET found == {c \in containers : c.id = req[t].container_id}
     IN /\ fault \/ found = {} \/ \E c \in found : req[t].pos < c.printed
        /\ Handler(t,
             IF fault THEN Done(req[t], "exception")
             ELSE IF found = {} THEN Done(req[t], "closed")
             ELSE [req[t] EXCEPT !.pos = @ + 1,
                                 !.sent = <<LogMessage(req[t].container_id, req[t].pos + 1)>>])
  /\ UNCHANGED <<world, launches, tunnel_reqs>>

\* the viewer disconnects: the loop sees ws.connected false and the socket is closed
logs_close(t) ==
  /\ req[t].pc \in {"follow", "stream"}
  /\ Handler(t, Done(req[t], "closed"))
  /\ UNCHANGED <<world, launches, tunnel_reqs>>

\* ---------------------------------------------------------- the shell bridge
\* the first test of terminal_ws: if project.template != 'vps' or project.status != 'running'
terminal_unavailable_kind(p) == Project[p].template # "vps"

terminal_unavailable(p) == Project[p].template # "vps" \/ Project[p].status # "running"

\* terminal_ws, opening: the ownership test closes the socket; the template and status
\* test and the backend and handle test answer with an error and close; then the
\* container is looked up and /bin/bash is started in it with a terminal (a failure is
\* sent as an error and the socket closed), the reader thread is started and the
\* receive loop entered
terminal_ws(t, u, p, fault) ==
  /\ req[t].pc = "idle"
  /\ LET r == NewRequest("terminal", u, p)
     IN Handler(t,
          IF ~Authorized(u, p) THEN Done(r, "closed")
          ELSE IF terminal_unavailable(p) THEN Done(r, "Terminal not available")
          ELSE IF ~docker_available \/ Project[p].container_id = NULL
            THEN Done(r, "Docker not available")
          ELSE IF fault \/ \A c \in containers : c.id # Project[p].container_id
            THEN Done(r, "exception")
          ELSE [r EXCEPT !.pc = "shell", !.container_id = Project[p].container_id])
  /\ UNCHANGED <<world, launches, tunnel_reqs>>

\* the threads inside a shell session; in "shell" the reader thread is still reading
ShellPcs == {"shell", "shell_reader_ended"}

\* what the receive loop of terminal_ws meets: ws.receive() gives None or the viewer is
\* gone; an input message written to the shell; an input message whose write raises; a
\* message that is not JSON
ShellEvents == {"closed", "input", "input_fails", "malformed"}

\* terminal_ws, one turn of the receive loop: the loop and the socket end only when
\* nothing is received; what handling a message raises is sent as an error message and
\* the loop goes on
terminal_receive(t, event) ==
  /\ req[t].pc \in ShellPcs
  /\ Handler(t,
       IF event = "closed" THEN Done(req[t], "closed")
       ELSE IF event = "input" THEN [req[t] EXCEPT !.sent = << >>]
       ELSE [req[t] EXCEPT !.sent = <<ErrorMessage>>])
  /\ UNCHANGED <<world, launches, tunnel_reqs>>

\* read_from_socket, the reader thread of a shell session: data of the shell is sent as
\* output; at end of data the thread ends; what reading raises is sent as an error
\* message and the thread ends.  The socket is left to the receive loop.
read_from_socket(t, event) ==
  /\ req[t].pc = "shell"
  /\ Handler(t,
       IF event = "data" THEN [req[t] EXCEPT !.sent = <<OutputMessage(req[t].container_id)>>]
       ELSE IF event = "eof" THEN [req[t] EXCEPT !.pc = "shell_reader_ended"]
       ELSE [req[t] EXCEPT !.pc = "shell_reader_ended", !.sent = <<ErrorMessage>>])
  /\ UNCHANGED <<world, launches, tunnel_reqs>>

\* The bridges opened on a deployment that was launched.  The rows are those a launched
\* deployment can have (see TerminateInit for the committed handle); vps is launched by
\* the container backend only, and the native backend reads its child through a reader
\* thread for as long as the child is there.
BridgeRows ==
  [template : {"worker", "vps"}, status : {"stopped", "deploying", "running", "error"},
   user_id : Owners, container_id : {NULL, 1}, ngrok_token : {FALSE}]

BridgeInit ==
  /\ docker_available \in BOOLEAN
  /\ ngrok_available = FALSE
  /\ plan = [u \in Users |-> "free"]
  /\ \E row \in BridgeRows :
       /\ Project = (1 :> row)
       /\ docker_available \/ row.template = "worker"
  /\ NgrokTunnel = {}
  /\ last_project_id = 1
  /\ last_tunnel_id = 0
  /\ project_dir = {1}
  /\ IF docker_available
       THEN /\ containers \in {{}, {[id |-> 1, name |-> 1, state |-> "running", printed |-> 0]}}
            /\ processes = {}
            /\ monitors = {}
            /\ log_file = << >>
       ELSE /\ containers = {}
            /\ \/ processes = {} /\ monitors = {}
               \/ /\ processes = {Child(1, 1)}
                  /\ monitors = {[kind |-> "native", project |-> 1, template |-> "worker",
                                  user_id |-> "alice", handle |-> 1, pc |-> "wait"]}
            /\ log_file = (1 :> <<StartLine>>)
  /\ ngrok_agent = {}
  /\ req = [t \in Threads |-> Idle]
  /\ response = NoResponse
  /\ launches = 1
  /\ tunnel_reqs = 0

BridgeNext ==
  \/ \E t \in Threads, u \in Users, p \in ProjectIds : logs_ws(t, u, p)
  \/ \E t \in Threads : logs_follow(t)
  \/ \E t \in Threads : logs_attach(t)
  \/ \E t \in Threads, fault \in BOOLEAN : logs_stream(t, fault)
  \/ \E t \in Threads : logs_close(t)
  \/ \E c \in containers : container_writes(c)
  \/ \E t \in Threads, u \in Users, p \in ProjectIds, fault \in BOOLEAN : terminal_ws(t, u, p, fault)
  \/ \E t \in Threads, event \in ShellEvents : terminal_receive(t, event)
  \/ \E t \in Threads, event \in {"data", "eof", "raised"} : read_from_socket(t, event)
  \/ \E t \in Threads, u \in Users, p \in ProjectIds : stop_project(t, u, p)
  \/ \E t \in Threads, fault \in BOOLEAN : stop_terminate(t, fault)
  \/ \E x \in processes : child_writes(x)
  \/ \E m \in monitors : reader_line(m)
  \/ \E x \in processes, code \in {0, 1} : process_exit(x, code)
  \/ \E m \in monitors : monitor_native_process(m)
  \/ Receive

BridgeSpec == BridgeInit /\ [][BridgeNext]_vars

\* The native backend with one deployment whose first workload has exited with code 1:
\* the monitor appended the exit-code line and committed error, the child is reaped.
\* The next launch truncates the log; its child prints, the reader copies, viewers
\* follow the log file.
LogInit ==
  /\ docker_available = FALSE
  /\ ngrok_available = FALSE
  /\ plan = [u \in Users |-> "free"]
  /\ Project = (1 :> [template |-> "worker", status |-> "error", user_id |-> "alice",
                      container_id |-> NULL, ngrok_token |-> FALSE])
  /\ NgrokTunnel = {}
  /\ last_project_id = 1
  /\ last_tunnel_id = 0
  /\ project_dir = {1}
  /\ containers = {}
  /\ processes = {}
  /\ log_file = (1 :> <<StartLine, ExitLine(1)>>)
  /\ ngrok_agent = {}
  /\ monitors = {}
  /\ req = [t \in Threads |-> Idle]
  /\ response = NoResponse
  /\ launches = 1
  /\ tunnel_reqs = 0

LogNext ==
  \/ \E t \in Threads, u \in Users, p \in ProjectIds : start_project(t, u, p)
  \/ \E t \in Threads : set_deploying(t)
  \/ \E t \in Threads, fault \in LaunchFaults : deploy(t, fault)
  \/ \E x \in processes : child_writes(x)
  \/ \E m \in monitors : reader_line(m)
  \/ \E x \in processes, code \in {0, 1} : process_exit(x, code)
  \/ \E m \in monitors : monitor_native_process(m)
  \/ \E t \in Threads, u \in Users, p \in ProjectIds : logs_ws(t, u, p)
  \/ \E t \in Threads : logs_follow(t)
  \/ \E t \in Threads : logs_close(t)
  \/ Receive

LogSpec == LogInit /\ [][LogNext]_vars

\* ------------------------------------------------- terminating a known handle
\* The requests that terminate a backend, started from the rows and workloads a
\* deployment can have once it was launched.  A committed handle comes from the except
\* clause of start_project and restart_project, which commits whatever the launch had
\* assigned to project.container_id before it raised (it raises after the assignment
\* when the monitor thread cannot be started); later starts and monitors then change
\* the status and leave the committed handle.  The workload of the handle is alive or
\* gone.
LaunchedRows ==
  [template : {"worker"}, status : {"stopped", "deploying", "running", "error"},
   user_id : Owners, container_id : {NULL, 1}, ngrok_token : {FALSE}]

TerminateInit ==
  /\ docker_available \in BOOLEAN
  /\ ngrok_available = FALSE
  /\ plan = [u \in Users |-> "free"]
  /\ \E row \in LaunchedRows : Project = (1 :> row)
  /\ NgrokTunnel = {}
  /\ last_project_id = 1
  /\ last_tunnel_id = 0
  /\ project_dir = {1}
  /\ IF docker_available
       THEN /\ containers \in {{}, {[id |-> 1, name |-> 1, state |-> "running", printed |-> 0]}}
            /\ processes = {}
            /\ log_file = << >>
       ELSE /\ containers = {}
            /\ processes \in {{}, {Child(1, 1)}}
            /\ log_file = (1 :> <<StartLine>>)
  /\ ngrok_agent = {}
  /\ monitors = {}
  /\ req = [t \in Threads |-> Idle]
  /\ response = NoResponse
  /\ launches = 1
  /\ tunnel_reqs = 0

TerminateNext ==
  \/ \E t \in Threads, u \in Users, p \in ProjectIds : stop_project(t, u, p)
  \/ \E t \in Threads, fault \in BOOLEAN : stop_terminate(t, fault)
  \/ \E t \in Threads, u \in Users, p \in ProjectIds : restart_project(t, u, p)
  \/ \E t \in Threads, fault \in BOOLEAN : restart_stop(t, fault)
  \/ \E t \in Threads, fault \in LaunchFaults : deploy(t, fault)
  \/ \E t \in Threads, u \in Users, p \in ProjectIds : delete_project(t, u, p)
  \/ \E t \in Threads, tunnel \in NgrokTunnel \cup {NoTunnel},
         fault \in {"none", "terminate", "rmtree", "disconnect"} : delete_run(t, tunnel, fault)
  \/ \E m \in monitors, outcome \in WaitOutcomes : monitor_container_health(m, outcome)
  \/ \E x \in processes, code \in {0, 1} : process_exit(x, code)
  \/ \E m \in monitors : monitor_native_process(m)
  \/ \E t \in Threads, u \in Users, p \in ProjectIds : project_stats(t, u, p)
  \/ Receive

TerminateSpec == TerminateInit /\ [][TerminateNext]_vars

\* ------------------------------------------------------- the readiness wait
\* The container backend just after a start request returned: the row says deploying
\* with no handle, the container runs, its monitor thread is at the top of its wait.
\* (A source-repository deployment does not get this far: its clone is refused.)
ReadinessForms == {form \in Forms : form[1] \notin GithubTemplates}

ReadinessInit ==
  /\ docker_available = TRUE
  /\ ngrok_available = TRUE
  /\ plan = [u \in Users |-> IF u \in Owners THEN "premium" ELSE "free"]
  /\ \E form \in ReadinessForms :
       /\ Project = (1 :> [template |-> form[1], status |-> "deploying", user_id |-> "alice",
                           container_id |-> NULL, ngrok_token |-> form[2]])
       /\ monitors = {[kind |-> "docker", project |-> 1, template |-> form[1],
                       user_id |-> "alice", handle |-> 1, pc |-> "wait", polls |-> 0,
                       open |-> FALSE, port |-> "none"]}
  /\ NgrokTunnel = {}
  /\ last_project_id = 1
  /\ last_tunnel_id = 0
  /\ project_dir = {1}
  /\ containers = {[id |-> 1, name |-> 1, state |-> "running", printed |-> 0]}
  /\ processes = {}
  /\ log_file = << >>
  /\ ngrok_agent = {}
  /\ req = [t \in Threads |-> Idle]
  /\ response = NoResponse
  /\ launches = 1
  /\ tunnel_reqs = 0

ReadinessNext ==
  \/ \E m \in monitors, connected \in BOOLEAN : monitor_poll(m, connected)
  \/ \E m \in monitors, outcome \in WaitOutcomes : monitor_container_health(m, outcome)
  \/ \E m \in monitors, fault \in BOOLEAN : start_ngrok_for_project(m, fault)
  \/ \E t \in Threads, u \in Users, p \in ProjectIds : delete_project(t, u, p)
  \/ \E t \in Threads, tunnel \in NgrokTunnel \cup {NoTunnel},
         fault \in {"none", "terminate", "rmtree", "disconnect"} : delete_run(t, tunnel, fault)
  \/ Receive

ReadinessSpec == ReadinessInit /\ [][ReadinessNext]_vars

\* a monitor thread that can run does, also while requests keep being answered; a
\* response is delivered
ReadinessStep ==
  \/ \E m \in monitors, connected \in BOOLEAN : monitor_poll(m, connected)
  \/ \E m \in monitors, outcome \in WaitOutcomes : monitor_container_health(m, outcome)
  \/ \E m \in monitors, fault \in BOOLEAN : start_ngrok_for_project(m, fault)

FairReadinessSpec ==
  /\ ReadinessSpec
  /\ SF_vars(ReadinessStep)
  /\ WF_vars(Receive)

\* ------------------------------------------------- requests on a launched row
\* The seven JSON requests on one deployment that was launched before and is at rest:
\* stopped, failed, or running (the source-repository templates never get to running,
\* their clone is refused; vps runs on the container backend only).  The handle is NULL
\* as every request leaves it; on the container backend the earlier container is there
\* or was removed, on the native backend the earlier child has exited and was reaped.
RequestInit ==
  /\ docker_available \in BOOLEAN
  /\ ngrok_available = TRUE
  /\ plan = [u \in Users |-> IF u \in Owners THEN "premium" ELSE "free"]
  /\ \E form \in Forms, status \in {"stopped", "running", "error"} :
       /\ status = "running" => form \in ReadinessForms
       /\ docker_available \/ form[1] # "vps"
       /\ Project = (1 :> [template |-> form[1], status |-> status, user_id |-> "alice",
                           container_id |-> NULL, ngrok_token |-> form[2]])
  /\ NgrokTunnel = {}
  /\ last_project_id = 1
  /\ last_tunnel_id = 0
  /\ project_dir = {1}
  /\ IF docker_available
       THEN /\ containers \in {{}, {[id |-> 1, name |-> 1, state |-> "running", printed |-> 0]}}
            /\ log_file = << >>
       ELSE /\ containers = {}
            /\ log_file = (1 :> <<StartLine, ExitLine(0)>>)
  /\ processes = {}
  /\ ngrok_agent = {}
  /\ monitors = {}
  /\ req = [t \in Threads |-> Idle]
  /\ response = NoResponse
  /\ launches = 1
  /\ tunnel_reqs = 0

RequestNext ==
  \/ \E t \in Threads, u \in Users, p \in ProjectIds : start_project(t, u, p)
  \/ \E t \in Threads : set_deploying(t)
  \/ \E t \in Threads, fault \in LaunchFaults : deploy(t, fault)
  \/ \E t \in Threads, u \in Users, p \in ProjectIds : stop_project(t, u, p)
  \/ \E t \in Threads, fault \in BOOLEAN : stop_terminate(t, fault)
  \/ \E t \in Threads, u \in Users, p \in ProjectIds : restart_project(t, u, p)
  \/ \E t \in Threads, fault \in BOOLEAN : restart_stop(t, fault)
  \/ \E t \in Threads, u \in Users, p \in ProjectIds : delete_project(t, u, p)
  \/ \E t \in Threads, tunnel \in NgrokTunnel \cup {NoTunnel},
         fault \in {"none", "terminate", "rmtree", "disconnect"} : delete_run(t, tunnel, fault)
  \/ \E t \in Threads, u \in Users, p \in ProjectIds : start_ngrok_tunnel(t, u, p)
  \/ \E t \in Threads, fault \in BOOLEAN : ngrok_connect(t, fault)
  \/ \E t \in Threads, u \in Users, p \in ProjectIds,
         tunnel \in NgrokTunnel \cup {NoTunnel}, fault \in BOOLEAN :
        stop_ngrok_tunnel_for_project(t, u, p, tunnel, fault)
  \/ \E t \in Threads, u \in Users, p \in ProjectIds : project_stats(t, u, p)
  \/ \E m \in monitors, outcome \in WaitOutcomes : monitor_container_health(m, outcome)
  \/ \E m \in monitors, fault \in BOOLEAN : start_ngrok_for_project(m, fault)
  \/ \E x \in processes, code \in {0, 1} : process_exit(x, code)
  \/ \E m \in monitors : monitor_native_process(m)
  \/ Receive

RequestSpec == RequestInit /\ [][RequestNext]_vars

\* ------------------------------------------------------------------- claims
\* the deployments that were created and later deleted
Deleted == {p \in ProjectIds : p <= last_project_id /\ p \notin DOMAIN Project}

Quiescent == \A t \in Threads : req[t].pc = "idle"

\* C1: a start request on a deployment whose persisted status is running is answered
\* with a failure and changes nothing: no status, handle or tunnel write, no launch,
\* no monitor, and the request is over.
C1_StartOnRunningRejected ==
  [][\A t \in Threads, u \in Users, p \in ProjectIds :
       (start_project(t, u, p) /\ Authorized(u, p) /\ Project[p].status = "running")
         => /\ response' = [success |-> FALSE, message |-> "Project is already running"]
            /\ req'[t] = Idle
            /\ UNCHANGED <<world, launches>>]_vars

C1_Witness ==
  /\ response.message = "Project is already running"
  /\ \E p \in DOMAIN Project : Project[p].status = "running"

\* C2: of two start requests on the same stopped deployment exactly one proceeds to
\* deploying and launches: never are two start requests for one deployment both past
\* the status test.
C2_OneStartProceeds ==
  \A t1, t2 \in Threads :
    (/\ t1 # t2
     /\ req[t1].kind = "start" /\ req[t2].kind = "start"
     /\ req[t1].project = req[t2].project)
      => ~(req[t1].pc \in {"deploying", "launch"} /\ req[t2].pc \in {"deploying", "launch"})

\* C3: a start request on a deployment whose status is deploying is rejected: no
\* status write, no second backend launch.
C3_StartOnDeployingRejected ==
  [][\A t \in Threads, u \in Users, p \in ProjectIds :
       (start_project(t, u, p) /\ Authorized(u, p) /\ Project[p].status = "deploying")
         => /\ ~response'.success
            /\ response' # NoResponse
            /\ req'[t] = Idle
            /\ UNCHANGED <<world, launches>>]_vars

\* C4: in every persisted state between requests the backend handle is non-null
\* exactly when the status is deploying or running.
C4_HandleIffActive ==
  Quiescent =>
    \A p \in DOMAIN Project :
      (Project[p].container_id # NULL) <=> (Project[p].status \in {"deploying", "running"})

\* C5: when stop answers success the workload launched for the deployment is no
\* longer alive, the persisted status is stopped and the persisted handle is null.
C5_StopTerminates ==
  response.message = "Project stopped successfully" =>
    \A p \in DOMAIN Project :
      /\ ~WorkloadAlive(p)
      /\ Project[p].status = "stopped"
      /\ Project[p].container_id = NULL

\* C6: once delete has answered success the descriptor does not exist, the project
\* directory does not exist and no tunnel session row references the deployment.
C6_DeleteLeavesNothing ==
  \A p \in Deleted :
    /\ p \notin DOMAIN Project
    /\ p \notin project_dir
    /\ tunnels_of(p) = {}

\* C7: when delete answers success, in whatever status it found the deployment, no
\* workload launched for the deployment is alive.
C7_DeleteStopsWorkload ==
  response.message = "Project deleted successfully" =>
    \A p \in Deleted : ~WorkloadAlive(p)

C9_DeployingIsTransient ==
  \A p \in ProjectIds :
    (p \in DOMAIN Project /\ Project[p].status = "deploying")
      ~> (p \notin DOMAIN Project \/ Project[p].status # "deploying")

\* C10: an explicit tunnel start for a running port-exposing deployment fails without
\* a session when the owner's active tunnel count equals the plan limit, and goes
\* through to opening the tunnel when the count is one below the limit.
C10_TunnelQuotaBoundary ==
  [][\A t \in Threads, u \in Users, p \in ProjectIds :
       (/\ start_ngrok_tunnel(t, u, p)
        /\ Authorized(u, p)
        /\ Project[p].status = "running"
        /\ Project[p].template \in WebTemplates
        /\ ngrok_available)
         => /\ active_tunnels(u) = get_plan_limits(u).max_ngrok_tunnels
                 => (~response'.success /\ req'[t] = Idle /\ UNCHANGED <<NgrokTunnel, ngrok_agent>>)
            /\ active_tunnels(u) = get_plan_limits(u).max_ngrok_tunnels - 1
                 => req'[t].pc = "connect"]_vars

BackendStopped(p) ==
  /\ p \in DOMAIN Project
  /\ Project[p].status = "stopped"
  /\ Project[p].container_id = NULL

\* C13: terminate is idempotent: once a deployment's backend was terminated, a second
\* terminate of the same deployment (handle cleared, or workload gone) does not raise
\* and changes nothing, on both backends.
C13_TerminateIdempotent ==
  [][\A t \in Threads :
       (stop_terminate(t, FALSE) /\ BackendStopped(req[t].project))
         => /\ response' = [success |-> TRUE, message |-> "Project stopped successfully"]
            /\ UNCHANGED <<containers, processes>>]_vars

\* the terminate a request makes for a deployment it found running raises
terminate_raises(t, fault) ==
  /\ req[t].project \in DOMAIN Project
  /\ req[t].was_running
  /\ ~terminate(req[t].container_id, fault).ok

\* C14: when terminating the backend fails inside stop, restart or delete, the
\* request answers with the failure and the persisted status is what it was.
C14_FailedTerminateKeepsStatus ==
  [][\A t \in Threads, fault \in BOOLEAN :
       (/\ \/ stop_terminate(t, fault)
            \/ restart_stop(t, fault)
            \/ (fault /\ \E tunnel \in NgrokTunnel \cup {NoTunnel} : delete_run(t, tunnel, "terminate"))
        /\ terminate_raises(t, fault))
         => /\ response' = [success |-> FALSE, message |-> "exception"]
            /\ req[t].project \in DOMAIN Project'
            /\ Project'[req[t].project].status = Project[req[t].project].status]_vars

\* C15: on the native backend, when the child has exited the reader appends the
\* exit-code line after every output line of the child (none is left unread, and
\* nothing of that child is appended afterwards: the child is reaped and the reader
\* ends), and then the status is error for a non-zero exit code and running for zero.
C15_ExitLineThenStatus ==
  [][\A m \in monitors :
       (monitor_native_process(m) /\ m.project \in DOMAIN Project)
         => \E x \in processes :
              /\ x.pid = m.handle
              /\ x.state = "exited"
              /\ x.out = << >>
              /\ m.project \in DOMAIN log_file
              /\ log_file'[m.project] = Append(log_file[m.project], ExitLine(x.code))
              /\ Project'[m.project].status = (IF x.code # 0 THEN "error" ELSE "running")
              /\ x \notin processes'
              /\ m \notin monitors']_vars

C15_Witness ==
  \E p \in DOMAIN log_file :
    /\ Len(log_file[p]) >= 2
    /\ log_file[p][Len(log_file[p])] = ExitLine(1)
    /\ log_file[p][Len(log_file[p]) - 1].kind = "out"
    /\ p \in DOMAIN Project
    /\ Project[p].status = "error"

\* C16: a viewer who opens the log bridge after the native process exited with code 1
\* receives the exit-code line of the log file: the session is admitted and reads from
\* a position before that line.
C16_ViewerGetsExitLine ==
  [][\A t \in Threads, u \in Users, p \in ProjectIds :
       (/\ logs_ws(t, u, p)
        /\ Authorized(u, p)
        /\ p \in DOMAIN log_file
        /\ Len(log_file[p]) > 0
        /\ log_file[p][Len(log_file[p])] = ExitLine(1))
         => /\ req'[t].pc = "follow"
            /\ req'[t].pos < Len(log_file[p])]_vars

RequiresFields == {"pyrogram-bot", "github-custom"}

\* C18: creating a deployment whose form lacks a field its template requires is
\* rejected before a row is persisted and before a directory is created.
C18_MissingFieldRejected ==
  [][\A t \in Threads, u \in Users, form \in Forms :
       (new_deployment(t, u, form[1], form[2], FALSE) /\ form[1] \in RequiresFields)
         => /\ ~response'.success
            /\ UNCHANGED <<Project, last_project_id, project_dir>>]_vars

\* C19: a restart of a running deployment takes the persisted status from running to
\* deploying, never through stopped, and the old workload is terminated before the new
\* one is launched: when the request goes on to the launch no workload of the
\* deployment is alive.
C19_RestartTerminatesFirst ==
  [][\A t \in Threads, fault \in BOOLEAN :
       (/\ restart_stop(t, fault)
        /\ req[t].was_running
        /\ req[t].project \in DOMAIN Project
        /\ req'[t].pc = "launch")
         => /\ Project'[req[t].project].status = "deploying"
            /\ \A c \in containers' : ~(c.name = req[t].project /\ c.state = "running")
            /\ \A x \in processes' : ~(x.project = req[t].project /\ x.state = "alive")]_vars

\* C20: the persisted status becomes running only from deploying: no step takes a
\* deployment from error or from stopped directly to running.
C20_RunningOnlyFromDeploying ==
  [][\A p \in DOMAIN Project :
       (/\ p \in DOMAIN Project'
        /\ Project'[p].status = "running"
        /\ Project[p].status # "running")
         => Project[p].status = "deploying"]_vars

\* the docker monitors that have not written a status yet
Waiting == {m \in monitors : m.kind = "docker" /\ m.pc = "wait"}

\* C21: when the wait of the container readiness monitor ends, by a poll that connected
\* or by the last attempt failing, the monitor commits running; it commits error only
\* when an exception was raised.
C21_LoopExitIsRunning ==
  [][\A m \in Waiting, outcome \in WaitOutcomes :
       (monitor_container_health(m, outcome) /\ m.project \in DOMAIN Project)
         => /\ outcome \in {"reachable", "exhausted"}
                 => Project'[m.project].status = "running"
            /\ Project'[m.project].status = "error" => outcome = "raised"]_vars

C21_Witness ==
  /\ docker_available
  /\ Waiting = {}
  /\ \E p \in DOMAIN Project :
       /\ Project[p].template \in PolledTemplates
       /\ Project[p].status = "running"
       /\ AliveContainers(p) # {}

\* C22: when the readiness monitor has made all its attempts and none connected, the
\* status it commits is error.
C22_TimeoutIsError ==
  [][\A m \in Waiting :
       (/\ monitor_container_health(m, "exhausted")
        /\ m.polls = PollAttempts
        /\ ~m.open
        /\ m.project \in DOMAIN Project)
         => Project'[m.project].status = "error"]_vars

\* C23: every container readiness monitor ends its wait: it makes at most 30 connection
\* attempts, on the application port for the port-exposing templates and on 7681 for
\* vps, and none for bot and worker; a poll writes no status; the step that ends the
\* wait writes running or error once if the row exists, and the monitor never waits or
\* writes again.
C23_MonitorTerminates ==
  /\ [](\A m \in Waiting :
          /\ m.polls <= 30
          /\ m.template \in {"pyrogram-bot", "worker"} => m.polls = 0
          /\ (m.polls > 0 /\ m.template = "vps") => m.port = "7681"
          /\ (m.polls > 0 /\ m.template \in WebTemplates) => m.port = "project.port")
  /\ [][\A m \in Waiting :
          /\ (\E connected \in BOOLEAN : monitor_poll(m, connected)) => UNCHANGED Project
          /\ (\E outcome \in WaitOutcomes : monitor_container_health(m, outcome))
               => /\ Waiting' = Waiting \ {m}
                  /\ m.project \in DOMAIN Project
                       => Project'[m.project].status \in {"running", "error"}]_vars
  /\ (Waiting # {}) ~> (Waiting = {})

C23_Witness ==
  \E m \in Waiting : m.polls = PollAttempts /\ ~m.open /\ m.template = "vps"

\* C24: when a start request whose container launch succeeded returns, the persisted
\* handle of the deployment is the id of the container that was started.
C24_HandlePersisted ==
  [][\A t \in Threads, fault \in LaunchFaults :
       (/\ deploy(t, fault)
        /\ req[t].kind = "start"
        /\ docker_available
        /\ req[t].project \in DOMAIN Project
        /\ launch(req[t].project, launches + 1, fault).ok)
         => /\ response' = [success |-> TRUE, message |-> "Project is starting"]
            /\ Project'[req[t].project].container_id = launches + 1
            /\ \E c \in containers' : c.id = Project'[req[t].project].container_id]_vars

\* C25: at most one workload launched for a deployment is alive at any time, whatever
\* start and restart requests were made: never two running containers, never two live
\* host processes.
C25_OneWorkloadAlive ==
  \A p \in ProjectIds :
    Cardinality(AliveContainers(p)) + Cardinality(AliveProcesses(p)) <= 1

\* C26: on the container backend, when the clone of a source-repository deployment
\* fails, the launch raises: no image build, container creation or start is attempted,
\* no container and no monitor thread is added, and the request answers with the failure
\* and status error.
C26_CloneFailureAborts ==
  [][\A t \in Threads, fault \in LaunchFaults :
       (/\ deploy(t, fault)
        /\ docker_available
        /\ req[t].project \in DOMAIN Project
        /\ Project[req[t].project].template \in GithubTemplates
        /\ ~git_clone_ok(req[t].project, project_dir, fault))
         => /\ ~launch(req[t].project, launches + 1, fault).ok
            /\ launch(req[t].project, launches + 1, fault).attempted = {"clone"}
            /\ UNCHANGED <<containers, monitors, launches>>
            /\ response' = [success |-> FALSE, message |-> "exception"]
            /\ Project'[req[t].project].status = "error"]_vars

C26_Witness ==
  /\ docker_available
  /\ response = [success |-> FALSE, message |-> "exception"]
  /\ containers = {}
  /\ monitors = {}
  /\ \E p \in DOMAIN Project :
       Project[p].template \in GithubTemplates /\ Project[p].status = "error"

\* C27: opening the log bridge on a deployment whose status is neither running nor
\* deploying sends the error message "Project is not running" and closes the socket:
\* no session is left, no log message was sent and nothing else changed.
C27_LogBridgeRejected ==
  [][\A t \in Threads, u \in Users, p \in ProjectIds :
       (/\ logs_ws(t, u, p)
        /\ Authorized(u, p)
        /\ Project[p].status \notin {"running", "deploying"})
         => /\ response' = [success |-> FALSE, message |-> "Project is not running"]
            /\ req'[t] = Idle
            /\ UNCHANGED <<world, launches, tunnel_reqs>>]_vars

C27_Witness ==
  /\ response = [success |-> FALSE, message |-> "Project is not running"]
  /\ \A t \in Threads : req[t].pc \notin {"follow", "stream"}
  /\ \E p \in DOMAIN Project : Project[p].status = "error"

\* C28: opening the shell bridge is answered with an error message and leaves no shell
\* session unless the deployment is a vps, its status is running, the container backend
\* is active and the persisted handle is non-null.
C28_ShellBridgeRejected ==
  [][\A t \in Threads, u \in Users, p \in ProjectIds, fault \in BOOLEAN :
       (/\ terminal_ws(t, u, p, fault)
        /\ Authorized(u, p)
        /\ ~(/\ Project[p].template = "vps"
             /\ Project[p].status = "running"
             /\ docker_available
             /\ Project[p].container_id # NULL))
         => /\ ~response'.success
            /\ response'.message \in {"Terminal not available", "Docker not available"}
            /\ req'[t] = Idle
            /\ UNCHANGED <<world, launches, tunnel_reqs>>]_vars

C28_Witness ==
  /\ response = [success |-> FALSE, message |-> "Docker not available"]
  /\ docker_available
  /\ \A t \in Threads : req[t].pc \notin ShellPcs
  /\ \E p \in DOMAIN Project :
       /\ Project[p].template = "vps"
       /\ Project[p].status = "running"
       /\ Project[p].container_id = NULL

\* the steps a thread makes for a bridge: opening, a turn of a loop, closing
BridgeStep(t) ==
  \/ \E u \in Users, p \in ProjectIds : logs_ws(t, u, p)
  \/ logs_follow(t)
  \/ logs_attach(t)
  \/ \E fault \in BOOLEAN : logs_stream(t, fault)
  \/ logs_close(t)
  \/ \E u \in Users, p \in ProjectIds, fault \in BOOLEAN : terminal_ws(t, u, p, fault)
  \/ \E event \in ShellEvents : terminal_receive(t, event)
  \/ \E event \in {"data", "eof", "raised"} : read_from_socket(t, event)

\* the steps in which something fails inside a bridge session
BridgeFailure(t) ==
  \/ logs_stream(t, TRUE)
  \/ \E u \in Users, p \in ProjectIds :
       /\ terminal_ws(t, u, p, TRUE)
       /\ Authorized(u, p)
       /\ ~terminal_unavailable(p)
       /\ docker_available
       /\ Project[p].container_id # NULL
  \/ terminal_receive(t, "input_fails")
  \/ terminal_receive(t, "malformed")
  \/ read_from_socket(t, "raised")

C30_TeardownFailureSwallowed ==
  [][\A t \in Threads, tunnel \in NgrokTunnel :
       (/\ delete_run(t, tunnel, "disconnect")
        /\ req[t].project \in DOMAIN Project
        /\ ~terminate_raises(t, FALSE))
         => /\ response' = [success |-> TRUE, message |-> "Project deleted successfully"]
            /\ tunnel \notin NgrokTunnel'
            /\ req[t].project \notin DOMAIN Project'
            /\ req[t].project \notin project_dir'
            /\ ngrok_agent' = ngrok_agent]_vars

C30_Witness ==
  /\ response = [success |-> TRUE, message |-> "Project deleted successfully"]
  /\ Deleted # {}
  /\ NgrokTunnel = {}
  /\ ngrok_agent # {}

\* ---------------------------------------------------------------------------
\* C31: whenever a tunnel stop request of the owner answers success, the external
\* tunnel is torn down (gone from the agent) and the deployment has no active tunnel
\* session left; a tunnel stop request on a deployment without a tunnel session is
\* answered with a failure and changes nothing.
C31_TunnelStopTearsDown ==
  [][\A t \in Threads, u \in Users, p \in ProjectIds, fault \in BOOLEAN :
       \A tunnel \in ngrok_tunnel(p) :
         stop_ngrok_tunnel_for_project(t, u, p, tunnel, fault) /\ Authorized(u, p)
           => IF tunnels_of(p) = {}
                THEN /\ response'.message = "No active Ngrok tunnel for this project"
                     /\ response'.message \notin Successes
                     /\ UNCHANGED <<world, launches, tunnel_reqs>>
                ELSE response'.message \in Successes
                       => /\ tunnel.id \notin ngrok_agent'
                          /\ \A x \in NgrokTunnel' : x.project_id = p => ~x.active]_vars

\* ---------------------------------------------------------------------------
\* C32: a tunnel start request of the owner on a deployment whose status is not
\* running, or whose template is the bot or the worker, is answered with a failure and
\* ends there: no tunnel session is created and no external tunnel is opened.
C32_TunnelStartRejected ==
  [][\A t \in Threads, u \in Users, p \in ProjectIds :
       /\ start_ngrok_tunnel(t, u, p)
       /\ Authorized(u, p)
       /\ Project[p].status # "running" \/ Project[p].template \in {"pyrogram-bot", "worker"}
       => /\ response' # NoResponse
          /\ ~response'.success
          /\ req'[t] = Idle
          /\ UNCHANGED <<NgrokTunnel, ngrok_agent, last_tunnel_id, tunnel_reqs>>]_vars

\* a running bot was refused a tunnel for its template
C32_Witness ==
  /\ response.message = "Ngrok not supported for this template"
  /\ 1 \in DOMAIN Project
  /\ Project[1].template = "pyrogram-bot"
  /\ Project[1].status = "running"
  /\ NgrokTunnel = {}
  /\ ngrok_agent = {}

\* ---------------------------------------------------------------------------
\* C33: a tunnel session is created only for a deployment that exists and whose status
\* is running when the session is committed; a stop or a delete that ran since the
\* tunnel request's status test, or since the monitor wrote running, prevents it.
C33_TunnelOnlyForRunning ==
  [][\A tunnel \in NgrokTunnel' \ NgrokTunnel :
       /\ tunnel.project_id \in DOMAIN Project'
       /\ Project'[tunnel.project_id].status = "running"]_vars

\* ---------------------------------------------------------------------------
\* thread t takes the step of a stop or restart request that terminates the native
\* backend of a deployment whose handle is not NULL
NativeTerminates(t) ==
  /\ ~docker_available
  /\ req[t].container_id # NULL
  /\ \E fault \in BOOLEAN :
       stop_terminate(t, fault) \/ (restart_stop(t, fault) /\ req[t].was_running)

\* C34: whenever native termination returns without raising for a handle that is not
\* NULL, the process of the handle is no longer alive and the handle is cleared (and
\* committed cleared by the request); the first signal is SIGTERM, the wait polls at
\* most ten times, and SIGKILL is sent last and only to a child that outlived the polls.
C34_NativeTermination ==
  [][\A t \in Threads :
       NativeTerminates(t) =>
         /\ \A survives \in Survives :
              LET out == stop_native_deployment(req[t].container_id, survives)
                  polls == {i \in DOMAIN out.signals : out.signals[i] = "poll"}
              IN out.ok =>
                   /\ \A x \in out.processes : x.pid = req[t].container_id => x.state # "alive"
                   /\ out.container_id = NULL
                   /\ Head(out.signals) = "SIGTERM"
                   /\ Cardinality(polls) <= PollLimit
                   /\ \A i \in DOMAIN out.signals :
                        out.signals[i] = "SIGKILL"
                          => /\ i = Len(out.signals)
                             /\ Cardinality(polls) = PollLimit
                             /\ survives > PollLimit
         /\ req'[t].result # "exception" /\ response'.message # "exception"
              => /\ \A x \in processes' : x.pid = req[t].container_id => x.state # "alive"
                 /\ Project'[req[t].project].container_id = NULL]_vars

\* a stop ended a child that ignored SIGTERM: the child was killed, the row says
\* stopped with the handle cleared
C34_Witness ==
  /\ ~docker_available
  /\ response.message = "Project stopped successfully"
  /\ \E x \in processes : x.pid = 1 /\ x.state = "exited" /\ x.code = -9
  /\ Project[1].status = "stopped"
  /\ Project[1].container_id = NULL

C36_StopOnNotRunningRejected ==
  [][\A t \in Threads, u \in Users, p \in ProjectIds :
       (stop_project(t, u, p) /\ Authorized(u, p) /\ Project[p].status # "running")
         => /\ response' = [success |-> FALSE, message |-> "Project is not running"]
            /\ req'[t] = Idle
            /\ UNCHANGED <<Project, containers, processes, world>>]_vars

\* a failed deployment whose container is still there was refused a stop
C36_Witness ==
  /\ response = [success |-> FALSE, message |-> "Project is not running"]
  /\ 1 \in DOMAIN Project
  /\ Project[1].status = "error"
  /\ \E c \in containers : c.state = "running"
  /\ \A t \in Threads : req[t] = Idle

\* ---------------------------------------------------------------------------
\* C37: when the tunnel auto-start of the readiness monitor fails, the deployment's
\* status stays running (it is not moved to error) and no session is created; the
\* monitor goes on to the auto-start only for a port-exposing template with a saved
\* token, and only in the step that has committed running.
C37_AutostartFailureKeepsRunning ==
  [][/\ \A m \in monitors :
          (start_ngrok_for_project(m, TRUE) /\ m.project \in DOMAIN Project)
            => /\ Project[m.project].status = "running"
               /\ UNCHANGED <<Project, NgrokTunnel, ngrok_agent>>
     /\ \A m \in monitors' \ monitors :
          m.pc = "ngrok"
            => /\ m.template \in WebTemplates
               /\ Project[m.project].ngrok_token
               /\ Project'[m.project].status = "running"]_vars

\* the auto-start of a deployment with a saved token failed: the monitor has ended,
\* there is no session and the status is running
C37_Witness ==
  /\ monitors = {}
  /\ 1 \in DOMAIN Project
  /\ Project[1].ngrok_token
  /\ Project[1].status = "running"
  /\ NgrokTunnel = {}
  /\ ngrok_agent = {}

\* ---------------------------------------------------------------------------
\* the last chunk of the container's output the viewer of thread t has received
Delivered(t) == IF req[t].sent = << >> THEN 0 ELSE req[t].sent[1].n

\* C38: on a container-backed deployment the log bridge delivers every chunk of the
\* workload's output exactly once and in order: each chunk the live stream sends is the
\* one after the last chunk the viewer has received, whatever the container printed
\* between the replay and the start of the stream.
C38_LogBridgeDeliversAll ==
  [][\A t \in Threads, fault \in BOOLEAN :
       (logs_stream(t, fault) /\ req'[t].pc = "stream")
         => req'[t].sent[1].n = Delivered(t) + 1]_vars

\* ---------------------------------------------------------------------------
\* C39: the port bindings a container is created with always include the deployment's
\* application port, and include the shell-access port 7681 exactly when the template
\* is vps.
C39_PortBindings ==
  [][\A t \in Threads, fault \in LaunchFaults :
       (/\ deploy(t, fault)
        /\ docker_available
        /\ req[t].project \in DOMAIN Project)
         => LET p == req[t].project
                out == start_docker_deployment(p, launches + 1, fault)
            IN "create" \in out.attempted
                 => /\ "project.port" \in out.ports
                    /\ "7681" \in out.ports <=> Project[p].template = "vps"]_vars

\* ---------------------------------------------------------------------------
\* thread t handles a start, stop, restart, delete, stats, tunnel start or tunnel stop
\* request of user u for deployment p
JsonRequest(t, u, p) ==
  \/ start_project(t, u, p)
  \/ stop_project(t, u, p)
  \/ restart_project(t, u, p)
  \/ delete_project(t, u, p)
  \/ project_stats(t, u, p)
  \/ start_ngrok_tunnel(t, u, p)
  \/ \E tunnel \in NgrokTunnel \cup {NoTunnel}, fault \in BOOLEAN :
       stop_ngrok_tunnel_for_project(t, u, p, tunnel, fault)

\* C40: every start, stop, restart, delete, stats, tunnel start and tunnel stop request
\* of a user who does not own the deployment, or for a deployment that does not exist,
\* is answered with the failure Unauthorized and changes no deployment, tunnel or
\* backend state.
C40_NonOwnerUnauthorized ==
  [][\A t \in Threads, u \in Users, p \in ProjectIds :
       (JsonRequest(t, u, p) /\ (p \notin DOMAIN Project \/ Project[p].user_id # u))
         => /\ response' = [success |-> FALSE, message |-> "Unauthorized"]
            /\ req'[t] = Idle
            /\ UNCHANGED <<world, launches, tunnel_reqs>>]_vars

\* a user who is not the owner was refused on a running deployment that exists
C40_Witness ==
  /\ response = [success |-> FALSE, message |-> "Unauthorized"]
  /\ 1 \in DOMAIN Project
  /\ Project[1].user_id = "alice"
  /\ Project[1].status = "running"
  /\ \A t \in Threads : req[t] = Idle

====
